---- MODULE Spec2Model ----
(***************************************************************************)
(* A model of jedi's compiled-value layer:                                 *)
(*   jedi/inference/compiled/value.py  (CompiledObject, CompiledName,      *)
(*       CompiledObjectFilter, _parse_function_doc, _create_from_name,     *)
(*       create_from_access_path, create_cached_compiled_object)           *)
(*   jedi/inference/lazy_value.py      (the LazyValue family)              *)
(* Each component has its own specification over the shared variables; the *)
(* variables of the other components stay at their initial values.         *)
(***************************************************************************)
EXTENDS Integers, Sequences, FiniteSets, TLC

VARIABLES
    objects,      \* the CompiledObject instances of the inference-state, by identity
    memo,         \* the memo table of create_cached_compiled_object
    remembered,   \* an earlier create_from_access_path call (path and result)
    last,         \* the most recent creation call (arguments and result)
    py_doc,       \* the doc string handed to _parse_function_doc
    parsed,       \* what _parse_function_doc(doc) returned or raised
    lazy_values,  \* the list handed to get_merged_lazy_value
    inferred,     \* the merged lazy value and what its infer() returned
    tables,       \* the dict objects holding predefined names, by identity
    predefined_names,  \* the owning context's predefined_names attribute
    lazy_trees,   \* the LazyTreeValue objects: their _predefined_names dicts
    tree_pc,      \* where LazyTreeValue.infer() stands
    old_value,    \* monkeypatch's saved attribute value
    before,       \* the context's table right before infer() was called
    finished,     \* how the infer() call that just completed ended
    filter_handle,             \* the answers of the filtered object's handle
    type_handle,               \* the answers of the handle of the builtin `type`
    is_instance,               \* CompiledObjectFilter.is_instance of the view
    allow_descriptor_getattr,  \* infer_state.allow_descriptor_getattr
    name_cache,   \* the Name objects _get_cached_name has memoized
    looked_up,    \* the last filter call and the list it returned
    callee,       \* the answers of the called object's handle and collaborators
    call_result,  \* what py__call__ returned or raised, and the handle calls it made
    iter_handle,  \* the answers of the iterated object's handle
    base_items,   \* what the base Value's py__iter__ yields for the object
    iter_pc,      \* where the generator of py__iter__ stands
    yielded       \* the items the generator has yielded so far

createVars == <<objects, memo, remembered, last>>
docVars == <<py_doc, parsed>>
lazyVars == <<lazy_values, inferred>>
treeVars == <<tables, predefined_names, lazy_trees, tree_pc, old_value, before, finished>>
filterVars == <<filter_handle, type_handle, is_instance, allow_descriptor_getattr,
                name_cache, looked_up>>
callVars == <<callee, call_result>>
iterVars == <<iter_handle, base_items, iter_pc, yielded>>

vars == <<createVars, docVars, lazyVars, treeVars, filterVars, callVars, iterVars>>

\* Python's None, as a parent value and as a result
None == 0

(***************************************************************************)
(* Identity-keyed creation  (value.py 510-541)                             *)
(***************************************************************************)

\* Longest access path / list of access steps drawn as an input
MaxPathLen == 2
\* Cap on the number of CompiledObject instances of one inference-state
MaxObjects == 2

\* Access handles of the introspected runtime; the handles of ClassHandles
\* answer is_class() with True
Handles == {"h1", "h2"}
ClassHandles == {"h1"}
\* The (name, handle) pairs access paths are built from: two of them share
\* the handle and differ in the name
AccessPairs == {<<"a", "h1">>, <<"b", "h1">>, <<"a", "h2">>}

SeqsUpTo(S, n) == UNION {[1..k -> S] : k \in 0..n}

AccessPaths == SeqsUpTo(AccessPairs, MaxPathLen)
AccessSteps == SeqsUpTo(Handles, MaxPathLen) \ {<<>>}

\* CompiledObject.__init__: the instance keeps its handle and its parent
CompiledObject(access_handle, parent_value) ==
    [access_handle |-> access_handle, parent_value |-> parent_value]

\* The key of the memo table: the arguments after the inference-state
CacheKeyNoParent(access_handle, parent_value) == <<access_handle, None>>
CacheKey(access_handle, parent_value) == <<access_handle, parent_value>>

\* infer_state_function_cache (jedi/inference/cache.py): the memo table of the
\* inference-state, append-only, looked up by the call's arguments
MemoHit(mm, key) == key \in DOMAIN mm
MemoStore(mm, key, value) == mm @@ (key :> value)

\* create_cached_compiled_object: one instance per (handle, parent); a new
\* instance is appended to objects and its identity is its index
create_cached_compiled_object(objs, mm, access_handle, parent_value) ==
    LET key == CacheKey(access_handle, parent_value)
    IN  IF MemoHit(mm, key)
        THEN [objects |-> objs, memo |-> mm, value |-> mm[key]]
        ELSE [objects |-> Append(objs, CompiledObject(access_handle, parent_value)),
              memo |-> MemoStore(mm, key, Len(objs) + 1),
              value |-> Len(objs) + 1]

\* The loop shared by create_from_access_path and _create_from_name: each
\* step's object is the parent of the next; steps lists the objects in order
RECURSIVE FoldAccesses(_, _, _, _)
FoldAccesses(objs, mm, accesses, parent_value) ==
    IF accesses = <<>>
    THEN [objects |-> objs, memo |-> mm, value |-> parent_value, steps |-> <<>>]
    ELSE LET c == create_cached_compiled_object(objs, mm, Head(accesses), parent_value)
             r == FoldAccesses(c.objects, c.memo, Tail(accesses), c.value)
         IN  [r EXCEPT !.steps = <<c.value>> \o @]

\* The handles of an access path: `for name, access in access_path.accesses`
\* hands only access to the constructor
PathNames(path) == [i \in 1..Len(path) |-> path[i][1]]
PathAccesses(path) == [i \in 1..Len(path) |-> path[i][2]]

create_from_access_path(objs, mm, path) ==
    FoldAccesses(objs, mm, PathAccesses(path), None)

is_class(objs, value) == objs[value].access_handle \in ClassHandles

\* The parent _create_from_name computes for the new object (lines 512-514)
EffectiveParent(objs, compiled_object) ==
    IF is_class(objs, compiled_object)
    THEN objs[compiled_object].parent_value
    ELSE compiled_object

\* _create_from_name: access_paths is what getattr_paths(name) answered.
\* parent_value is computed and the loop starts from value = None
create_from_name(objs, mm, compiled_object, access_paths) ==
    LET parent_value == EffectiveParent(objs, compiled_object)
        value == None
    IN  FoldAccesses(objs, mm, access_paths, value)

NoCall == [op |-> "none", names |-> <<>>, accesses |-> <<>>, parent |-> None,
           steps |-> <<>>, result |-> None]

InitCreate ==
    /\ objects = <<>>
    /\ memo = <<>>
    /\ remembered = NoCall
    /\ last = NoCall

\* A call create_from_access_path(infer_state, path); with keep, the call is
\* the one remembered for comparison with every later call
CreateFromAccessPath(path, keep) ==
    LET r == create_from_access_path(objects, memo, path)
    IN  /\ keep => remembered.op = "none"
        /\ Len(r.objects) <= MaxObjects
        /\ objects' = r.objects
        /\ memo' = r.memo
        /\ last' = [op |-> "path", names |-> PathNames(path),
                    accesses |-> PathAccesses(path), parent |-> None,
                    steps |-> r.steps, result |-> r.value]
        /\ remembered' = IF keep THEN last' ELSE remembered

\* CompiledName.infer() of a name on parent_value: the value-set of the one
\* value _create_from_name builds; access_paths is the handle's answer to
\* getattr_paths(name, default=None)
CompiledNameInfer(parent_value, access_paths) ==
    LET r == create_from_name(objects, memo, parent_value, access_paths)
    IN  /\ parent_value \in 1..Len(objects)
        /\ Len(r.objects) <= MaxObjects
        /\ objects' = r.objects
        /\ memo' = r.memo
        /\ last' = [op |-> "name", names |-> <<>>, accesses |-> access_paths,
                    parent |-> parent_value, steps |-> r.steps, result |-> r.value]
        /\ UNCHANGED remembered

NextCreate ==
    \/ \E path \in AccessPaths, keep \in BOOLEAN : CreateFromAccessPath(path, keep)
    \/ \E p \in 1..MaxObjects, steps \in AccessSteps : CompiledNameInfer(p, steps)


(***************************************************************************)
(* Documentation parser  (value.py 440-507)                                *)
(* A doc string is a sequence of one-character strings; offsets are the    *)
(* 0-based offsets of the Python code, -1 standing for "not found".        *)
(***************************************************************************)

\* Longest doc string drawn from DocChars as an input
MaxDocLen == 4
\* doc[end:end + 7]: the window searched for the return marker
ReturnWindow == 7

NL == "\n"
DocChars == {"(", ")", "-", ">", " ", "a", NL, "[", "]", ","}
WhiteSpace == {" ", NL}

Min(a, b) == IF a < b THEN a ELSE b

\* Python's s[a:b] for 0 <= a
Slice(s, a, b) == SubSeq(s, a + 1, Min(b, Len(s)))

\* doc.index(c): the offset of the first c, -1 where Python raises ValueError
Index(s, c) ==
    IF \E i \in 1..Len(s) : s[i] = c
    THEN (CHOOSE i \in 1..Len(s) : s[i] = c /\ \A j \in 1..(i - 1) : s[j] # c) - 1
    ELSE -1

\* The loop of lines 462-469 from offset pos with the running count: the
\* offset at which count returns to 0, -1 when the loop ends without break
\* (end stays unbound)
RECURSIVE ScanParens(_, _, _)
ScanParens(doc, pos, count) ==
    IF pos >= Len(doc) THEN -1
    ELSE LET s == doc[pos + 1]
             n == IF s = "(" THEN count + 1 ELSE IF s = ")" THEN count - 1 ELSE count
         IN  IF n = 0 THEN pos ELSE ScanParens(doc, pos + 1, n)

\* str.split(sep) for a one-character separator
RECURSIVE Split(_, _)
Split(s, sep) ==
    LET i == Index(s, sep)
    IN  IF i = -1 THEN <<s>>
        ELSE <<Slice(s, 0, i)>> \o Split(Slice(s, i + 1, Len(s)), sep)

\* sep.join(parts)
RECURSIVE Join(_, _)
Join(parts, sep) ==
    IF parts = <<>> THEN <<>>
    ELSE IF Len(parts) = 1 THEN parts[1]
    ELSE parts[1] \o <<sep>> \o Join(Tail(parts), sep)

\* change_options: every non-empty argument without '=' gets '=None'
change_options(group) ==
    LET args == Split(group, ",")
        opt(a) == IF a # <<>> /\ Index(a, "=") = -1
                  THEN a \o <<"=", "N", "o", "n", "e">> ELSE a
    IN  Join([i \in 1..Len(args) |-> opt(args[i])], ",")

\* The first position >= p holding a square bracket, Len(s) + 1 if none
RECURSIVE RunEnd(_, _)
RunEnd(s, p) ==
    IF p > Len(s) \/ s[p] \in {"[", "]"} THEN p ELSE RunEnd(s, p + 1)

\* One re.subn(r' ?\[([^\[\]]+)\]', change_options, s) pass from position i
RECURSIVE SubnFrom(_, _)
SubnFrom(s, i) ==
    IF i > Len(s) THEN [out |-> <<>>, changes |-> 0]
    ELSE LET j == IF s[i] = "[" THEN i
                  ELSE IF s[i] = " " /\ i + 1 <= Len(s) /\ s[i + 1] = "[" THEN i + 1
                  ELSE 0
             k == IF j = 0 THEN 0 ELSE RunEnd(s, j + 1)
         IN  IF j # 0 /\ k <= Len(s) /\ k > j + 1 /\ s[k] = "]"
             THEN LET r == SubnFrom(s, k + 1)
                  IN  [out |-> change_options(SubSeq(s, j + 1, k - 1)) \o r.out,
                       changes |-> r.changes + 1]
             ELSE LET r == SubnFrom(s, i + 1)
                  IN  [out |-> <<s[i]>> \o r.out, changes |-> r.changes]

\* The while loop of lines 486-490: substitute until nothing changes
RECURSIVE RemoveOptionBrackets(_)
RemoveOptionBrackets(param_str) ==
    LET r == SubnFrom(param_str, 1)
    IN  IF r.changes = 0 THEN r.out ELSE RemoveOptionBrackets(r.out)

\* str.replace(old, new) for one-character strings
Replace(s, old, new) == [i \in 1..Len(s) |-> IF s[i] = old THEN new ELSE s[i]]

\* The first position >= p of w that is not '>' or '-', Len(w) + 1 if none
RECURSIVE ArrowEnd(_, _)
ArrowEnd(w, p) ==
    IF p > Len(w) \/ w[p] \notin {">", "-"} THEN p ELSE ArrowEnd(w, p + 1)

\* re.search('-[>-]* ', w): r.end() of the leftmost match, -1 for None
MarkerEnd(w) ==
    LET hit(i) == w[i] = "-" /\ ArrowEnd(w, i + 1) <= Len(w) /\ w[ArrowEnd(w, i + 1)] = " "
    IN  IF \E i \in 1..Len(w) : hit(i)
        THEN LET i == CHOOSE i \in 1..Len(w) : hit(i) /\ \A j \in 1..(i - 1) : ~hit(j)
             IN  ArrowEnd(w, i + 1)
        ELSE -1

\* pattern.match(doc, pos) for r'(,\n|[^\n-])+': the offset the match ends at
RECURSIVE ReturnEnd(_, _)
ReturnEnd(doc, pos) ==
    IF pos >= Len(doc) THEN pos
    ELSE IF doc[pos + 1] = "," /\ pos + 1 < Len(doc) /\ doc[pos + 2] = NL
         THEN ReturnEnd(doc, pos + 2)
    ELSE IF doc[pos + 1] \notin {NL, "-"} THEN ReturnEnd(doc, pos + 1)
    ELSE pos

\* str.strip()
RECURSIVE Strip(_)
Strip(s) ==
    IF s = <<>> THEN s
    ELSE IF s[1] \in WhiteSpace THEN Strip(Tail(s))
    ELSE IF s[Len(s)] \in WhiteSpace THEN Strip(SubSeq(s, 1, Len(s) - 1))
    ELSE s

\* re.sub(r'[nN]ew (.*)', r'\1()', s) from position i: the rest of the line
\* after 'New ' followed by '()'
RECURSIVE NewToCall(_, _)
NewToCall(s, i) ==
    IF i > Len(s) THEN <<>>
    ELSE IF /\ i + 3 <= Len(s)
            /\ s[i] \in {"n", "N"} /\ s[i + 1] = "e" /\ s[i + 2] = "w" /\ s[i + 3] = " "
         THEN LET nl == Index(SubSeq(s, i + 4, Len(s)), NL)
                  e == IF nl = -1 THEN Len(s) + 1 ELSE i + 4 + nl
              IN  SubSeq(s, i + 4, e - 1) \o <<"(", ")">> \o NewToCall(s, e)
         ELSE <<s[i]>> \o NewToCall(s, i + 1)

\* docstr_defaults.get(ret_str, ret_str)
docstr_defaults(ret_str) ==
    IF ret_str = <<"f","l","o","a","t","i","n","g"," ","p","o","i","n","t"," ",
                   "n","u","m","b","e","r">> THEN <<"f","l","o","a","t">>
    ELSE IF ret_str = <<"c","h","a","r","a","c","t","e","r">> THEN <<"s","t","r">>
    ELSE IF ret_str = <<"i","n","t","e","g","e","r">> THEN <<"i","n","t">>
    ELSE IF ret_str = <<"d","i","c","t","i","o","n","a","r","y">> THEN <<"d","i","c","t">>
    ELSE IF ret_str = <<"s","t","r","i","n","g">> THEN <<"s","t","r">>
    ELSE ret_str

\* Lines 459-476: [end, param_str] of the first balanced parenthesis group;
\* with no '(' (ValueError) or no closing ')' (UnboundLocalError) the except
\* branch sets end = 0 and param_str = ''
ParamsBetween(doc, start, end) ==
    IF end = -1
    THEN [end |-> 0, param_str |-> <<>>]
    ELSE [end |-> end, param_str |-> RemoveOptionBrackets(Slice(doc, start + 1, end))]
ParamsFrom(doc, start) ==
    ParamsBetween(doc, start, IF start = -1 THEN -1 ELSE ScanParens(doc, start, 0))
ParseParams(doc) == ParamsFrom(doc, Index(doc, "("))

\* Lines 493-505: the return string; `.group` of a failed match raises
\* AttributeError
ReturnBetween(doc, index, stop) ==
    IF stop = index THEN [raised |-> "AttributeError", ret |-> <<>>]
    ELSE [raised |-> "none",
          ret |-> docstr_defaults(NewToCall(Strip(Slice(doc, index, stop)), 1))]
ReturnAfterMarker(doc, end, r) ==
    IF r = -1 THEN [raised |-> "none", ret |-> <<>>]
    ELSE ReturnBetween(doc, end + r, ReturnEnd(doc, end + r))
ParseReturn(doc, end) ==
    ReturnAfterMarker(doc, end, MarkerEnd(Slice(doc, end, end + ReturnWindow)))

\* _parse_function_doc(doc): (param_str, ret), or the exception it raises
ParsedPair(param_str, r) ==
    [raised |-> r.raised,
     param_str |-> IF r.raised = "none" THEN Replace(param_str, "-", "_") ELSE <<>>,
     ret |-> r.ret]
ParseAfterParams(doc, p) == ParsedPair(p.param_str, ParseReturn(doc, p.end))
parse_function_doc(doc) == ParseAfterParams(doc, ParseParams(doc))

\* Doc strings of the kinds the parser's comments and callers name
Chars_foo_a_b_int == <<"f","o","o","(","a",","," ","b",")"," ","-",">"," ","i","n","t">>
Chars_bar_new_list == <<"b","a","r","(",")"," ","-",">"," ","N","e","w"," ","l","i","s","t">>
Chars_bar_dictionary ==
    <<"b","a","r","(",")"," ","-",">"," ","d","i","c","t","i","o","n","a","r","y">>
Chars_foo_opt_str == <<"f","o","o","(","a",","," ","[","b","]",")"," ","-",">"," ","s","t","r">>
SampleDocs == {Chars_foo_a_b_int, Chars_bar_new_list, Chars_bar_dictionary, Chars_foo_opt_str}

Docs == SeqsUpTo(DocChars, MaxDocLen) \cup SampleDocs

NotParsed == [raised |-> "not called", param_str |-> <<>>, ret |-> <<>>]

InitDoc ==
    /\ py_doc \in Docs
    /\ parsed = NotParsed

IdleDoc ==
    /\ py_doc = <<>>
    /\ parsed = NotParsed

\* A call _parse_function_doc(py_doc)
ParseFunctionDoc ==
    /\ parsed = NotParsed
    /\ parsed' = parse_function_doc(py_doc)
    /\ UNCHANGED py_doc

(***************************************************************************)
(* The LazyValue family  (lazy_value.py)                                   *)
(***************************************************************************)

\* Longest list handed to get_merged_lazy_value
MaxLazyValues == 3

Values == {"v1", "v2"}
NoData == "no data"

\* The lazy values; data is a value, a value-set or a list of lazy values
LazyKnownValue(value) ==
    [class |-> "LazyKnownValue", value |-> value, values |-> {}, members |-> <<>>]
LazyKnownValues(values) ==
    [class |-> "LazyKnownValues", value |-> NoData, values |-> values, members |-> <<>>]
LazyUnknownValue ==
    [class |-> "LazyUnknownValue", value |-> NoData, values |-> {}, members |-> <<>>]
MergedLazyValues(members) ==
    [class |-> "MergedLazyValues", value |-> NoData, values |-> {}, members |-> members]

NO_VALUES == {}

\* ValueSet.from_sets (jedi/inference/base_value.py): the sets of an iterable
\* aggregated into one value-set
RECURSIVE from_sets(_)
from_sets(sets) ==
    IF sets = <<>> THEN NO_VALUES ELSE Head(sets) \cup from_sets(Tail(sets))

\* The infer() method of each class, a LazyTreeValue aside
RECURSIVE infer(_)
infer(lazy) ==
    CASE lazy.class = "LazyKnownValue" -> {lazy.value}
      [] lazy.class = "LazyKnownValues" -> lazy.values
      [] lazy.class = "LazyUnknownValue" -> NO_VALUES
      [] lazy.class = "MergedLazyValues" ->
            from_sets([i \in 1..Len(lazy.members) |-> infer(lazy.members[i])])

\* get_merged_lazy_value for a non-empty list
GetMergedMoreThanTwo(lazy_vals) ==
    IF Len(lazy_vals) > 2 THEN MergedLazyValues(lazy_vals) ELSE lazy_vals[1]
get_merged_lazy_value(lazy_vals) ==
    IF Len(lazy_vals) > 1 THEN MergedLazyValues(lazy_vals) ELSE lazy_vals[1]

LeafLazyValues ==
    {LazyKnownValue(v) : v \in Values} \cup {LazyKnownValues(vs) : vs \in SUBSET Values}
        \cup {LazyUnknownValue}
LazyInputs ==
    LeafLazyValues \cup
        {MergedLazyValues(<<LazyKnownValue("v1"), LazyUnknownValue>>),
         MergedLazyValues(<<LazyKnownValues({"v2"}), LazyKnownValue("v1")>>)}

NotInferred == [status |-> "not called", input |-> <<>>, merged |-> LazyUnknownValue,
                result |-> {}]

InitLazy ==
    /\ lazy_values = <<>>
    /\ inferred = NotInferred

\* The caller builds the list of lazy values
AppendLazyValue(lazy) ==
    /\ Len(lazy_values) < MaxLazyValues
    /\ lazy_values' = Append(lazy_values, lazy)
    /\ UNCHANGED inferred

\* get_merged_lazy_value(lazy_values).infer(); lazy_values[0] of an empty
\* list raises IndexError
InferMerged ==
    /\ inferred' =
          IF lazy_values = <<>>
          THEN [NotInferred EXCEPT !.status = "IndexError"]
          ELSE LET merged == get_merged_lazy_value(lazy_values)
               IN  [status |-> "done", input |-> lazy_values, merged |-> merged,
                    result |-> infer(merged)]
    /\ UNCHANGED lazy_values

NextLazy ==
    \/ \E lazy \in LazyInputs : AppendLazyValue(lazy)
    \/ InferMerged

(***************************************************************************)
(* LazyTreeValue  (lazy_value.py 36-46)                                    *)
(***************************************************************************)

\* Cap on the number of dict objects (the context's table and the snapshots)
MaxTables == 2

\* A predefined_names dict maps flow scopes to name dicts
FlowScopes == {"if1", "if2"}
NameDicts == {"d1", "d2"}
TableValues == UNION {[ks -> NameDicts] : ks \in SUBSET FlowScopes}

DictSet(d, k, v) == [x \in DOMAIN d \cup {k} |-> IF x = k THEN v ELSE d[x]]
DictDel(d, k) == [x \in DOMAIN d \ {k} |-> d[x]]

\* LazyTreeValue.__init__: self._predefined_names = dict(value.predefined_names),
\* a new dict object with the contents of the context's current table
SnapshotAlias(tbls, ref) == [tables |-> tbls, ref |-> ref]
Snapshot(tbls, ref) == [tables |-> Append(tbls, tbls[ref]), ref |-> Len(tbls) + 1]

NoTable == [ref |-> None, contents |-> <<>>, lazy |-> None]

InitTree ==
    /\ tables \in {<<t>> : t \in TableValues}
    /\ predefined_names = 1
    /\ lazy_trees = {}
    /\ tree_pc = "idle"
    /\ old_value = None
    /\ before = NoTable
    /\ finished = "no"

\* LazyTreeValue(value, node) is constructed
NewLazyTreeValue ==
    LET r == Snapshot(tables, predefined_names)
    IN  /\ Len(tables) < MaxTables
        /\ tables' = r.tables
        /\ lazy_trees' = lazy_trees \cup {r.ref}
        /\ finished' = "no"
        /\ UNCHANGED <<predefined_names, tree_pc, old_value, before>>

\* The ambient bindings of the context change between construction and the
\* call: flow analysis binds or unbinds a flow scope in the context's table
AmbientChange(k, v) ==
    /\ tree_pc = "idle"
    /\ tables' = [tables EXCEPT ![predefined_names] =
                    IF v = NoData THEN DictDel(@, k) ELSE DictSet(@, k, v)]
    /\ finished' = "no"
    /\ UNCHANGED <<predefined_names, lazy_trees, tree_pc, old_value, before>>

\* monkeypatch (jedi/common/utils.py): old_value = getattr(obj, name), then
\* setattr(obj, name, new_value)
MonkeypatchEnter(new_value) ==
    /\ old_value' = predefined_names
    /\ predefined_names' = new_value

\* monkeypatch's finally: setattr(obj, name, old_value)
MonkeypatchExit ==
    /\ predefined_names' = old_value
    /\ old_value' = None

\* LazyTreeValue.infer() is called: the with statement installs the snapshot
InferEnter(lazy) ==
    /\ tree_pc = "idle"
    /\ before' = [ref |-> predefined_names, contents |-> tables[predefined_names],
                  lazy |-> lazy]
    /\ MonkeypatchEnter(lazy)
    /\ tree_pc' = "patched"
    /\ finished' = "no"
    /\ UNCHANGED <<tables, lazy_trees>>

\* value.infer_node(self.data) runs: it binds and unbinds flow scopes in the
\* context's predefined_names, which is the installed snapshot
InferNodeChange(k, v) ==
    /\ tree_pc = "patched"
    /\ tables' = [tables EXCEPT ![predefined_names] =
                    IF v = NoData THEN DictDel(@, k) ELSE DictSet(@, k, v)]
    /\ UNCHANGED <<predefined_names, lazy_trees, tree_pc, old_value, before, finished>>

\* infer_node returns or raises; either way the with statement is left
InferExit(outcome) ==
    /\ tree_pc = "patched"
    /\ MonkeypatchExit
    /\ tree_pc' = "idle"
    /\ finished' = outcome
    /\ UNCHANGED <<tables, lazy_trees, before>>

NextTree ==
    \/ NewLazyTreeValue
    \/ \E k \in FlowScopes, v \in NameDicts \cup {NoData} : AmbientChange(k, v)
    \/ \E lazy \in lazy_trees : InferEnter(lazy)
    \/ \E k \in FlowScopes, v \in NameDicts \cup {NoData} : InferNodeChange(k, v)
    \/ \E outcome \in {"returned", "raised"} : InferExit(outcome)

IdleLazy ==
    /\ lazy_values = <<>>
    /\ inferred = NotInferred

IdleTree ==
    /\ tables = <<>>
    /\ predefined_names = None
    /\ lazy_trees = {}
    /\ tree_pc = "idle"
    /\ old_value = None
    /\ before = NoTable
    /\ finished = "no"

(***************************************************************************)
(* CompiledObjectFilter  (value.py 361-434)                                *)
(***************************************************************************)

\* Attribute names of the filtered object and of the builtin `type`; the
\* order is the order dir() reports them in
FilterNames == {"__class__", "x"}
TypeNames == {"__class__", "mro"}
NameOrder == <<"__class__", "mro", "x">>

\* is_allowed_getattr(name): (has_attribute, is_descriptor)
GetattrInfos == BOOLEAN \X BOOLEAN

\* CompiledName(infer_state, parent_value, name), made by the filter's
\* _create_name with the filter's compiled object as parent
CompiledName(filter, name) ==
    [class |-> "CompiledName", string_name |-> name, parent_value |-> filter,
     filter |-> filter]

\* EmptyCompiledName(infer_state, name): its parent is the builtins module
EmptyCompiledName(filter, name) ==
    [class |-> "EmptyCompiledName", string_name |-> name,
     parent_value |-> "builtins_module", filter |-> filter]

\* infer() of a Name: EmptyCompiledName.infer is NO_VALUES; CompiledName.infer
\* is the set of the one value _create_from_name builds for (parent, name)
name_infer(name) ==
    IF name.class = "EmptyCompiledName" THEN NO_VALUES
    ELSE {<<name.parent_value, name.string_name>>}

\* _get_cached_name: memoized per filter by (name, is_empty)
get_cached_name(filter, name, is_empty) ==
    IF is_empty THEN EmptyCompiledName(filter, name) ELSE CompiledName(filter, name)

\* CompiledObjectFilter._get; info is what allowed_getattr_callback() answers
\* and dir_names what dir_callback() answers
GetInstanceCheckFirst(filter, inst, allow_descr, name, info, dir_names, check_has_attribute) ==
    IF check_has_attribute /\ ~info[1] THEN <<>>
    ELSE IF inst /\ name \notin dir_names THEN <<>>
    ELSE IF (info[2] /\ ~allow_descr) \/ ~info[1]
         THEN <<get_cached_name(filter, name, TRUE)>>
    ELSE <<get_cached_name(filter, name, FALSE)>>
FilterGetImpl(filter, inst, allow_descr, name, info, dir_names, check_has_attribute) ==
    IF check_has_attribute /\ ~info[1] THEN <<>>
    ELSE IF (info[2] /\ ~allow_descr) \/ ~info[1]
         THEN <<get_cached_name(filter, name, TRUE)>>
    ELSE IF inst /\ name \notin dir_names THEN <<>>
    ELSE <<get_cached_name(filter, name, FALSE)>>

\* CompiledObjectFilter.get(name)
filter_get(filter, handle, inst, allow_descr, name) ==
    FilterGetImpl(filter, inst, allow_descr, name, handle.allowed[name], handle.dir, TRUE)

\* access_handle.get_dir_infos(): (needs_type_completions, {name:
\* is_allowed_getattr(name) for the names of dir()})
get_dir_infos(handle) ==
    [needs_type_completions |-> handle.needs_type_completions,
     dir_infos |-> [n \in handle.dir |-> handle.allowed[n]]]

\* The names of a dict in iteration order
RECURSIVE KeysInOrder(_, _)
KeysInOrder(keys, order) ==
    IF order = <<>> THEN <<>>
    ELSE (IF Head(order) \in keys THEN <<Head(order)>> ELSE <<>>)
            \o KeysInOrder(keys, Tail(order))

\* The first loop of values() (lines 420-425): names += self._get(name, ...)
RECURSIVE OwnNamesChecked(_, _, _, _, _)
OwnNamesChecked(filter, inst, allow_descr, dir_infos, names) ==
    IF names = <<>> THEN <<>>
    ELSE FilterGetImpl(filter, inst, allow_descr, Head(names), dir_infos[Head(names)],
                       DOMAIN dir_infos, TRUE)
            \o OwnNamesChecked(filter, inst, allow_descr, dir_infos, Tail(names))
RECURSIVE OwnNames(_, _, _, _, _)
OwnNames(filter, inst, allow_descr, dir_infos, names) ==
    IF names = <<>> THEN <<>>
    ELSE FilterGetImpl(filter, inst, allow_descr, Head(names), dir_infos[Head(names)],
                       DOMAIN dir_infos, FALSE)
            \o OwnNames(filter, inst, allow_descr, dir_infos, Tail(names))

\* CompiledObjectFilter.values() of the view (filter, handle, inst); thandle is
\* the handle of builtin_from_name('type'), whose one filter is a non-instance
\* view. own is the number of names the first loop contributed
RECURSIVE filter_values(_, _, _, _, _)
filter_values(filter, handle, inst, allow_descr, thandle) ==
    LET infos == get_dir_infos(handle)
        own == OwnNames(filter, inst, allow_descr, infos.dir_infos,
                        KeysInOrder(DOMAIN infos.dir_infos, NameOrder))
    IN  IF ~inst /\ infos.needs_type_completions
        THEN [names |-> own \o filter_values("type", thandle, FALSE, allow_descr,
                                             thandle).names,
              own |-> Len(own)]
        ELSE [names |-> own, own |-> Len(own)]

NothingLookedUp == [op |-> "none", name |-> "", names |-> <<>>, own |-> 0]

Range(f) == {f[i] : i \in DOMAIN f}

\* The handle of `type` reports no need for type completions: it is type itself
InitFilter ==
    /\ filter_handle \in [allowed : [FilterNames -> GetattrInfos],
                          dir : SUBSET FilterNames,
                          needs_type_completions : BOOLEAN]
    /\ type_handle \in [allowed : [TypeNames -> GetattrInfos],
                        dir : {TypeNames},
                        needs_type_completions : {FALSE}]
    /\ is_instance \in BOOLEAN
    /\ allow_descriptor_getattr \in BOOLEAN
    /\ name_cache = {}
    /\ looked_up = NothingLookedUp

IdleFilter ==
    /\ filter_handle = [allowed |-> <<>>, dir |-> {}, needs_type_completions |-> FALSE]
    /\ type_handle = [allowed |-> <<>>, dir |-> {}, needs_type_completions |-> FALSE]
    /\ is_instance = FALSE
    /\ allow_descriptor_getattr = FALSE
    /\ name_cache = {}
    /\ looked_up = NothingLookedUp

\* filter.get(name)
FilterGet(name) ==
    LET names == filter_get("object", filter_handle, is_instance,
                            allow_descriptor_getattr, name)
    IN  /\ looked_up' = [op |-> "get", name |-> name, names |-> names, own |-> Len(names)]
        /\ name_cache' = name_cache \cup Range(names)
        /\ UNCHANGED <<filter_handle, type_handle, is_instance, allow_descriptor_getattr>>

\* filter.values()
FilterValues ==
    LET r == filter_values("object", filter_handle, is_instance,
                           allow_descriptor_getattr, type_handle)
    IN  /\ looked_up' = [op |-> "values", name |-> "", names |-> r.names, own |-> r.own]
        /\ name_cache' = name_cache \cup Range(r.names)
        /\ UNCHANGED <<filter_handle, type_handle, is_instance, allow_descriptor_getattr>>

NextFilter ==
    \/ \E name \in FilterNames : FilterGet(name)
    \/ FilterValues

(***************************************************************************)
(* CompiledObject.py__call__  (value.py 48-65, 230-248)                    *)
(***************************************************************************)

Chars_int == <<"i", "n", "t">>
Chars_str == <<"s", "t", "r">>
\* The names the builtins module's handle answers getattr_paths for
BuiltinNames == {Chars_int, Chars_str}

Chars_f_int == <<"f","(",")"," ","-",">"," ","i","n","t">>
Chars_f_int_str == <<"f","(",")"," ","-",">"," ","i","n","t"," ","s","t","r">>
Chars_f_foo_int == <<"f","(",")"," ","-",">"," ","f","o","o"," ","i","n","t">>
Chars_f_integer == <<"f","(",")"," ","-",">"," ","i","n","t","e","g","e","r">>
Chars_f_nothing == <<"f","(",")"," ","-",">"," ",NL>>
Chars_f == <<"f","(",")">>
\* py__doc__() answers: None, or one of these doc strings
CallDocs == {Chars_f_int, Chars_f_int_str, Chars_f_foo_int, Chars_f_integer,
             Chars_f_nothing, Chars_f}
NoDoc == [present |-> FALSE, text |-> <<>>]
NoAnnotation == [present |-> FALSE, path |-> <<>>]
ApiTypes == {"function", "instance", "class"}
Arguments == {"arguments"}

\* The values py__call__ returns, by the operation that makes them
ExecutedAnnotation(value) ==
    [kind |-> "execute_annotation", of |-> <<"object">>, object |-> value]
BaseCallResult == [kind |-> "Value.py__call__", of |-> <<>>, object |-> None]
CompiledInstance(arguments) ==
    [kind |-> "CompiledInstance", of |-> <<arguments>>, object |-> None]
ExecutedBuiltin(name, arguments) ==
    [kind |-> "infer_state.execute", of |-> name \o <<arguments>>, object |-> None]
DocstringType == [kind |-> "docstrings.infer_return_types", of |-> <<>>, object |-> None]

\* str.split(): the whitespace-delimited tokens
RECURSIVE SplitWhitespace(_)
SplitWhitespace(s) ==
    LET t == Strip(s)
        ws == {i \in 1..Len(t) : t[i] \in WhiteSpace}
    IN  IF t = <<>> THEN <<>>
        ELSE IF ws = {} THEN <<t>>
        ELSE LET i == CHOOSE i \in ws : \A j \in ws : i <= j
             IN  <<SubSeq(t, 1, i - 1)>> \o SplitWhitespace(SubSeq(t, i + 1, Len(t)))

\* CompiledObject._parse_function_doc: ('', '') when py__doc__() is None
method_parse_function_doc(handle) ==
    IF handle.doc.present THEN parse_function_doc(handle.doc.text)
    ELSE [raised |-> "none", param_str |-> <<>>, ret |-> <<>>]

\* The loop of _execute_function over the tokens of the return string
RECURSIVE ExecuteTokens(_, _)
ExecuteTokens(tokens, params) ==
    IF tokens = <<>> THEN {}
    ELSE (IF Head(tokens) \in BuiltinNames
          THEN {ExecutedBuiltin(Head(tokens), params)} ELSE {})
            \cup ExecuteTokens(Tail(tokens), params)

\* Lines 236-248 of _execute_function, parsed_doc being what
\* self._parse_function_doc() returned or raised
ExecuteParsedDoc(handle, params, parsed_doc) ==
    IF parsed_doc.raised # "none"
    THEN [raised |-> parsed_doc.raised, result |-> {},
          probes |-> <<"get_api_type", "py__doc__">>]
    ELSE [raised |-> "none",
          result |-> ExecuteTokens(SplitWhitespace(parsed_doc.ret), params)
                        \cup handle.doc_return_types,
          probes |-> <<"get_api_type", "py__doc__">>]

\* CompiledObject._execute_function(params), as the set ValueSet() makes of it
ExecuteFunctionAnyApi(handle, params) ==
    ExecuteParsedDoc(handle, params, method_parse_function_doc(handle))
execute_function(handle, params) ==
    IF handle.api_type # "function"
    THEN [raised |-> "none", result |-> {}, probes |-> <<"get_api_type">>]
    ELSE ExecuteParsedDoc(handle, params, method_parse_function_doc(handle))

\* Line 65: ValueSet(self._execute_function(arguments))
FunctionCallResult(objs, mm, r) ==
    [objects |-> objs, memo |-> mm, raised |-> r.raised, result |-> r.result,
     probes |-> <<"getattr_paths(__call__)", "is_class">> \o r.probes, created |-> None]

\* Lines 54-65: the call capability is probed, then is_class()
CallWithoutAnnotation(objs, mm, handle, arguments) ==
    IF ~handle.has_call
    THEN [objects |-> objs, memo |-> mm, raised |-> "none", result |-> {BaseCallResult},
          probes |-> <<"getattr_paths(__call__)">>, created |-> None]
    ELSE IF handle.is_class
    THEN [objects |-> objs, memo |-> mm, raised |-> "none",
          result |-> {CompiledInstance(arguments)},
          probes |-> <<"getattr_paths(__call__)", "is_class">>, created |-> None]
    ELSE FunctionCallResult(objs, mm, execute_function(handle, arguments))

\* Lines 49-52: the annotation's object is created and executed
AnnotationResult(r) ==
    [objects |-> r.objects, memo |-> r.memo, raised |-> "none",
     result |-> {ExecutedAnnotation(r.value)}, probes |-> <<>>, created |-> r.value]
CallAnnotation(objs, mm, handle) ==
    AnnotationResult(create_from_access_path(objs, mm, handle.return_annotation.path))

\* CompiledObject.py__call__(arguments)
PyCallProbeFirst(objs, mm, handle, arguments) ==
    IF handle.has_call /\ handle.return_annotation.present
    THEN [CallAnnotation(objs, mm, handle) EXCEPT
            !.probes = <<"getattr_paths(__call__)", "get_return_annotation">>]
    ELSE [CallWithoutAnnotation(objs, mm, handle, arguments) EXCEPT
            !.probes = <<"getattr_paths(__call__)", "get_return_annotation">> \o Tail(@)]
py__call__(objs, mm, handle, arguments) ==
    [(IF handle.return_annotation.present
      THEN CallAnnotation(objs, mm, handle)
      ELSE CallWithoutAnnotation(objs, mm, handle, arguments))
        EXCEPT !.probes = <<"get_return_annotation">> \o @]

NotCalled == [called |-> FALSE, raised |-> "none", result |-> {}, probes |-> <<>>,
              created |-> None]

\* The handle's answers agree: is_class() holds exactly for api type 'class'
InitCall ==
    /\ callee \in [return_annotation :
                      {NoAnnotation} \cup
                          {[present |-> TRUE, path |-> p] : p \in AccessPaths \ {<<>>}},
                   has_call : BOOLEAN,
                   is_class : BOOLEAN,
                   api_type : ApiTypes,
                   doc : {NoDoc} \cup {[present |-> TRUE, text |-> d] : d \in CallDocs},
                   doc_return_types : {{}, {DocstringType}}]
    /\ callee.is_class <=> callee.api_type = "class"
    /\ call_result = NotCalled

IdleCall ==
    /\ callee = [return_annotation |-> NoAnnotation, has_call |-> FALSE,
                 is_class |-> FALSE, api_type |-> "function", doc |-> NoDoc,
                 doc_return_types |-> {}]
    /\ call_result = NotCalled

\* compiled_object.py__call__(arguments)
Returned(r) ==
    /\ objects' = r.objects
    /\ memo' = r.memo
    /\ call_result' = [called |-> TRUE, raised |-> r.raised, result |-> r.result,
                       probes |-> r.probes, created |-> r.created]
PyCall(arguments) ==
    /\ ~call_result.called
    /\ Returned(py__call__(objects, memo, callee, arguments))
    /\ UNCHANGED <<callee, remembered, last>>

NextCall == \E arguments \in Arguments : PyCall(arguments)

(***************************************************************************)
(* CompiledObject.py__iter__  (value.py 203-218)                           *)
(* The method is a generator: each step runs it up to its next yield.      *)
(***************************************************************************)

\* Longest list py__iter__list() answers with
MaxIterList == 2
\* Most items the base Value's py__iter__ yields
MaxBaseItems == 1

\* The access paths py__iter__list() is built from: two top-level objects
\* and one object reached through another
IterAccessPaths ==
    {<< <<"a", "h1">> >>, << <<"a", "h2">> >>, << <<"a", "h2">>, <<"b", "h1">> >>}

\* What py__iter__list() can answer: None, or a list of access paths
NoIterList == [present |-> FALSE, accesses |-> <<>>]
IterLists ==
    {NoIterList} \cup {[present |-> TRUE, accesses |-> a] :
                          a \in SeqsUpTo(IterAccessPaths, MaxIterList)}

\* Value.py__iter__ (jedi/inference/base_value.py): the generic iteration,
\* which may be empty; its items are lazy values of a value that is not a
\* compiled object
GenericValue == -1
BaseIterations == SeqsUpTo({LazyKnownValue(GenericValue)}, MaxBaseItems)

\* Positions of the generator
NotIterated == [at |-> "not called", i |-> 0]
AtHasIter == [at |-> "has_iter", i |-> 0]
AtSuperLoop(i) == [at |-> "super loop", i |-> i]
AtIterList == [at |-> "py__iter__list", i |-> 0]
AtAccessLoop(i) == [at |-> "access loop", i |-> i]
AtReturn == [at |-> "returned", i |-> 0]

InitIter ==
    /\ iter_handle \in [has_iter : BOOLEAN, py__iter__list : IterLists]
    /\ base_items \in BaseIterations
    /\ iter_pc = AtHasIter
    /\ yielded = <<>>

IdleIter ==
    /\ iter_handle = [has_iter |-> FALSE, py__iter__list |-> NoIterList]
    /\ base_items = <<>>
    /\ iter_pc = NotIterated
    /\ yielded = <<>>

\* Line 208: `if not self.access_handle.has_iter()`; the block of the if
\* is entered or skipped, and nothing returns here
HasIterTest ==
    /\ iter_pc = AtHasIter
    /\ iter_pc' = IF ~iter_handle.has_iter THEN AtSuperLoop(1) ELSE AtIterList
    /\ UNCHANGED <<iter_handle, base_items, yielded, createVars>>

\* Lines 209-210: `for x in super().py__iter__(...): yield x`
SuperYield ==
    /\ iter_pc.at = "super loop"
    /\ iter_pc.i <= Len(base_items)
    /\ yielded' = Append(yielded, base_items[iter_pc.i])
    /\ iter_pc' = AtSuperLoop(iter_pc.i + 1)
    /\ UNCHANGED <<iter_handle, base_items, createVars>>

\* The loop of lines 209-210 is exhausted: control leaves the if block and
\* reaches line 212
SuperExhausted ==
    /\ iter_pc.at = "super loop"
    /\ iter_pc.i > Len(base_items)
    /\ iter_pc' = AtIterList
    /\ UNCHANGED <<iter_handle, base_items, yielded, createVars>>

\* Lines 212-215: py__iter__list() is asked; None ends the generator
IterListCall ==
    /\ iter_pc = AtIterList
    /\ iter_pc' = IF ~iter_handle.py__iter__list.present THEN AtReturn ELSE AtAccessLoop(1)
    /\ UNCHANGED <<iter_handle, base_items, yielded, createVars>>

\* Line 218: yield LazyKnownValue(create_from_access_path(infer_state, access))
YieldCreated(r) ==
    /\ objects' = r.objects
    /\ memo' = r.memo
    /\ yielded' = Append(yielded, LazyKnownValue(r.value))
AccessYield ==
    /\ iter_pc.at = "access loop"
    /\ iter_pc.i <= Len(iter_handle.py__iter__list.accesses)
    /\ YieldCreated(create_from_access_path(objects, memo,
                        iter_handle.py__iter__list.accesses[iter_pc.i]))
    /\ iter_pc' = AtAccessLoop(iter_pc.i + 1)
    /\ UNCHANGED <<iter_handle, base_items, remembered, last>>

\* The loop of lines 217-218 is exhausted: the generator ends
AccessExhausted ==
    /\ iter_pc.at = "access loop"
    /\ iter_pc.i > Len(iter_handle.py__iter__list.accesses)
    /\ iter_pc' = AtReturn
    /\ UNCHANGED <<iter_handle, base_items, yielded, createVars>>

NextIter ==
    \/ HasIterTest
    \/ SuperYield
    \/ SuperExhausted
    \/ IterListCall
    \/ AccessYield
    \/ AccessExhausted

(***************************************************************************)
(* Specifications                                                          *)
(***************************************************************************)

\* The creation layer: create_from_access_path and CompiledName.infer
Init == InitCreate /\ IdleDoc /\ IdleLazy /\ IdleTree /\ IdleFilter /\ IdleCall /\ IdleIter
Next == NextCreate /\ UNCHANGED <<docVars, lazyVars, treeVars, filterVars, callVars, iterVars>>
Spec == Init /\ [][Next]_vars

\* The documentation parser applied to every doc string of Docs
InitSpecDoc == InitCreate /\ InitDoc /\ IdleLazy /\ IdleTree /\ IdleFilter /\ IdleCall /\ IdleIter
NextDoc == ParseFunctionDoc /\ UNCHANGED <<createVars, lazyVars, treeVars, filterVars, callVars, iterVars>>
SpecDoc == InitSpecDoc /\ [][NextDoc]_vars

\* Lists of lazy values merged and inferred
InitSpecLazy == InitCreate /\ IdleDoc /\ InitLazy /\ IdleTree /\ IdleFilter /\ IdleCall /\ IdleIter
NextSpecLazy == NextLazy /\ UNCHANGED <<createVars, docVars, treeVars, filterVars, callVars, iterVars>>
SpecLazy == InitSpecLazy /\ [][NextSpecLazy]_vars

\* LazyTreeValue objects constructed and inferred on one context
InitSpecTree == InitCreate /\ IdleDoc /\ IdleLazy /\ InitTree /\ IdleFilter /\ IdleCall /\ IdleIter
NextSpecTree == NextTree /\ UNCHANGED <<createVars, docVars, lazyVars, filterVars, callVars, iterVars>>
SpecTree == InitSpecTree /\ [][NextSpecTree]_vars

\* One filter view of one compiled object, looked up by get and values
InitSpecFilter == InitCreate /\ IdleDoc /\ IdleLazy /\ IdleTree /\ InitFilter /\ IdleCall /\ IdleIter
NextSpecFilter == NextFilter /\ UNCHANGED <<createVars, docVars, lazyVars, treeVars, callVars, iterVars>>
SpecFilter == InitSpecFilter /\ [][NextSpecFilter]_vars

\* One compiled object called once
InitSpecCall ==
    InitCreate /\ IdleDoc /\ IdleLazy /\ IdleTree /\ IdleFilter /\ InitCall /\ IdleIter
NextSpecCall == NextCall /\ UNCHANGED <<docVars, lazyVars, treeVars, filterVars, iterVars>>
SpecCall == InitSpecCall /\ [][NextSpecCall]_vars

\* One compiled object iterated once, its generator run to the end
InitSpecIter ==
    InitCreate /\ IdleDoc /\ IdleLazy /\ IdleTree /\ IdleFilter /\ IdleCall /\ InitIter
NextSpecIter == NextIter /\ UNCHANGED <<docVars, lazyVars, treeVars, filterVars, callVars>>
SpecIter == InitSpecIter /\ [][NextSpecIter]_vars

(***************************************************************************)
(* Claims about identity-keyed creation                                    *)
(***************************************************************************)

TwoPathCalls == remembered.op = "path" /\ last.op = "path"

\* C1 (as amended): for one inference-state, two create_from_access_path
\* calls return the same instance exactly when the handle sequences of their
\* access paths are equal; the names of the (name, handle) pairs play no part
C1_SameInstanceIffSameHandles ==
    TwoPathCalls =>
        ((last.result = remembered.result) <=> (last.accesses = remembered.accesses))

\* C1 as stated: the same instance exactly when the access paths, names
\* included, are equal
C1_SameInstanceIffSamePath ==
    TwoPathCalls =>
        ((last.result = remembered.result)
            <=> (last.accesses = remembered.accesses /\ last.names = remembered.names))

\* Two calls whose paths differ only in a name returned one instance, and a
\* third handle sequence is known to have given another
C1_Witness ==
    /\ TwoPathCalls
    /\ last.accesses = remembered.accesses
    /\ last.names # remembered.names
    /\ Len(last.accesses) = MaxPathLen
    /\ last.result = remembered.result
    /\ last.result # None

\* C10 as stated: _create_from_name chains each step's object as the parent
\* of the next, and the first step's object has the effective parent (the
\* parent value, or the parent value's parent when it is a class) as parent
C10_FirstStepHasEffectiveParent ==
    (last.op = "name") =>
        /\ \A i \in 2..Len(last.steps) :
              objects[last.steps[i]].parent_value = last.steps[i - 1]
        /\ objects[last.steps[1]].parent_value = EffectiveParent(objects, last.parent)

(***************************************************************************)
(* Claims about the documentation parser                                   *)
(***************************************************************************)

\* doc has no balanced parenthesis group: no '(' at all, or the first '(' is
\* never closed
NoBalancedGroup(d) ==
    \/ \A i \in 1..Len(d) : d[i] # "("
    \/ ScanParens(d, Index(d, "("), 0) = -1

\* C6 as stated: for a doc without a balanced parenthesis group
\* _parse_function_doc raises nothing and returns ("", "")
C6_NoGroupGivesEmptyPair ==
    (parsed # NotParsed /\ NoBalancedGroup(py_doc)) =>
        (parsed.raised = "none" /\ parsed.param_str = <<>> /\ parsed.ret = <<>>)

(***************************************************************************)
(* Claims about the LazyValue family                                       *)
(***************************************************************************)

\* The values a lazy value stands for, by its kind
RECURSIVE Denotation(_)
Denotation(lazy) ==
    IF lazy.class = "LazyKnownValue" THEN {lazy.value}
    ELSE IF lazy.class = "LazyKnownValues" THEN lazy.values
    ELSE IF lazy.class = "LazyUnknownValue" THEN {}
    ELSE UNION {Denotation(lazy.members[i]) : i \in 1..Len(lazy.members)}

\* C8: LazyKnownValue(v) infers to {v}, LazyUnknownValue to the empty set,
\* the value get_merged_lazy_value builds from two or more lazy values infers
\* to the union of the members' sets, and a one-element list gives back its
\* element
C8_MergedInfersUnion ==
    (inferred.status = "done") =>
        LET in == inferred.input
        IN  /\ inferred.result = UNION {Denotation(in[i]) : i \in 1..Len(in)}
            /\ Len(in) = 1 => inferred.merged = in[1]
            /\ Len(in) > 1 => inferred.merged.class = "MergedLazyValues"
            /\ (Len(in) = 1 /\ in[1].class = "LazyKnownValue")
                  => inferred.result = {in[1].value}
            /\ (Len(in) = 1 /\ in[1].class = "LazyUnknownValue")
                  => inferred.result = {}

\* Two lazy values with different non-empty sets were merged and inferred
C8_Witness ==
    /\ inferred.status = "done"
    /\ Len(inferred.input) = 2
    /\ inferred.input[1].class = "LazyKnownValue"
    /\ inferred.input[2].class = "LazyKnownValues"
    /\ inferred.input[2].values # {}
    /\ inferred.input[1].value \notin inferred.input[2].values
    /\ Cardinality(inferred.result) = 2

\* C2: when LazyTreeValue.infer() has completed, by return or by exception,
\* the context's predefined_names is the very table it held right before the
\* call, with the contents it had then
C2_TableRestored ==
    (finished # "no") =>
        /\ predefined_names = before.ref
        /\ tables[predefined_names] = before.contents

\* infer() ended with an exception, infer_node having changed the installed
\* snapshot, and the table before the call differed from the snapshot
C2_Witness ==
    /\ finished = "raised"
    /\ before.lazy # before.ref
    /\ tables[before.lazy] # before.contents
    /\ tables[before.lazy] # <<>>
    /\ before.contents # <<>>

(***************************************************************************)
(* Claims about CompiledObjectFilter                                       *)
(***************************************************************************)

HasAttribute(name) == filter_handle.allowed[name][1]
IsDescriptor(name) == filter_handle.allowed[name][2]

\* C3: get(name) is the empty list when the handle reports the name as not
\* allowed; when the name is allowed, is a descriptor and descriptor access
\* is off, it is a list of one EmptyCompiledName that infers to nothing, on
\* instance and non-instance views alike
C3_GetVisibility ==
    (looked_up.op = "get") =>
        LET n == looked_up.name
        IN  /\ ~HasAttribute(n) => looked_up.names = <<>>
            /\ (HasAttribute(n) /\ IsDescriptor(n) /\ ~allow_descriptor_getattr) =>
                  /\ Len(looked_up.names) = 1
                  /\ looked_up.names[1].class = "EmptyCompiledName"
                  /\ looked_up.names[1].string_name = n
                  /\ name_infer(looked_up.names[1]) = {}

\* get() answered a blocked descriptor on an instance view whose directory
\* lacks the name
C3_Witness ==
    /\ looked_up.op = "get"
    /\ HasAttribute(looked_up.name) /\ IsDescriptor(looked_up.name)
    /\ ~allow_descriptor_getattr
    /\ is_instance
    /\ looked_up.name \notin filter_handle.dir
    /\ Len(looked_up.names) = 1

\* C4 as stated: values() never holds two Names with one string name, type
\* completions included
C4_NoDuplicateNames ==
    (looked_up.op = "values") =>
        \A i, j \in 1..Len(looked_up.names) :
            i # j => looked_up.names[i].string_name # looked_up.names[j].string_name

\* What values() contributed for name n from the object's own directory
Contribution(n) ==
    SelectSeq(SubSeq(looked_up.names, 1, looked_up.own), LAMBDA x : x.string_name = n)

\* What get(n) returns on the same view
GetResult(n) ==
    filter_get("object", filter_handle, is_instance, allow_descriptor_getattr, n)

\* C9 as stated: for every name of the directory values() contributes what
\* get(name) returns; a name that is not allowed contributes nothing
C9_ValuesSameAsGet ==
    (looked_up.op = "values") =>
        \A n \in filter_handle.dir :
            /\ Contribution(n) = GetResult(n)
            /\ ~HasAttribute(n) => Contribution(n) = <<>>

\* C9 (as amended): for every name of the directory that the handle reports
\* as allowed, values() contributes what get(name) returns; a name reported
\* as not allowed contributes one EmptyCompiledName, where get(name) is empty
C9_ValuesSameAsGetWhenAllowed ==
    (looked_up.op = "values") =>
        \A n \in filter_handle.dir :
            /\ HasAttribute(n) => Contribution(n) = GetResult(n)
            /\ ~HasAttribute(n) =>
                  /\ Contribution(n) = <<EmptyCompiledName("object", n)>>
                  /\ GetResult(n) = <<>>

\* values() ran on a directory holding an allowed name and a name that is
\* not allowed
C9_Witness ==
    /\ looked_up.op = "values"
    /\ \E n \in filter_handle.dir : ~HasAttribute(n)
    /\ \E n \in filter_handle.dir : HasAttribute(n) /\ GetResult(n) # <<>>

(***************************************************************************)
(* Claims about CompiledObject.py__call__                                  *)
(***************************************************************************)

\* C5: with a return annotation py__call__ returns the executed annotation
\* and asks the handle for nothing but the annotation: no getattr_paths
\* ('__call__'), no is_class, no doc
C5_AnnotationShortCircuits ==
    (call_result.called /\ callee.return_annotation.present) =>
        LET path == callee.return_annotation.path
        IN  /\ call_result.raised = "none"
            /\ call_result.probes = <<"get_return_annotation">>
            /\ call_result.result = {ExecutedAnnotation(call_result.created)}
            /\ objects[call_result.created].access_handle = path[Len(path)][2]

\* A callable function whose doc names a builtin was called and has a return
\* annotation: annotation and docstring disagree
C5_Witness ==
    /\ call_result.called
    /\ callee.return_annotation.present
    /\ callee.has_call /\ ~callee.is_class /\ callee.api_type = "function"
    /\ callee.doc = [present |-> TRUE, text |-> Chars_f_int]
    /\ callee.doc_return_types # {}

FunctionCase ==
    /\ call_result.called
    /\ ~callee.return_annotation.present
    /\ callee.has_call
    /\ ~callee.is_class

\* (a) the built-ins named by the tokens of the parsed return string, executed
\* with the arguments, and (b) what the doc-based inferencer contributes
DocUnion ==
    LET ret == method_parse_function_doc(callee).ret
        words == {SubSeq(ret, i, j) : <<i, j>> \in
                    {ij \in (1..Len(ret)) \X (1..Len(ret)) :
                        /\ ij[1] <= ij[2]
                        /\ \A k \in ij[1]..ij[2] : ret[k] \notin WhiteSpace
                        /\ (ij[1] = 1 \/ ret[ij[1] - 1] \in WhiteSpace)
                        /\ (ij[2] = Len(ret) \/ ret[ij[2] + 1] \in WhiteSpace)}}
    IN  {ExecutedBuiltin(t, a) : t \in words \cap BuiltinNames, a \in Arguments}
            \cup callee.doc_return_types

\* C7 as stated: a callable non-class object without annotation returns the
\* union (a) \cup (b), whatever its api type (docs the parser accepts)
C7_UnionForEveryApiType ==
    (FunctionCase /\ method_parse_function_doc(callee).raised = "none") =>
        (call_result.raised = "none" /\ call_result.result = DocUnion)

\* C7 (as amended): the union is returned when the api type is 'function'
\* (an exception of the doc parser propagates); for every other api type the
\* result is the empty value-set
C7_UnionForFunctionsOnly ==
    FunctionCase =>
        IF callee.api_type = "function"
        THEN IF method_parse_function_doc(callee).raised = "none"
             THEN call_result.raised = "none" /\ call_result.result = DocUnion
             ELSE call_result.raised = method_parse_function_doc(callee).raised
        ELSE call_result.raised = "none" /\ call_result.result = {}

\* A function whose doc names two built-ins was called and returned three
\* values
C7_Witness ==
    /\ FunctionCase
    /\ callee.api_type = "function"
    /\ callee.doc = [present |-> TRUE, text |-> Chars_f_int_str]
    /\ callee.doc_return_types # {}
    /\ Cardinality(call_result.result) = 3

(***************************************************************************)
(* Claims about CompiledObject.py__iter__                                  *)
(***************************************************************************)

\* The handles from the outermost parent down to a compiled object
RECURSIVE HandleChain(_, _)
HandleChain(objs, value) ==
    IF value = None THEN <<>>
    ELSE Append(HandleChain(objs, objs[value].parent_value), objs[value].access_handle)

\* The items are LazyKnownValues of the compiled objects of the accesses,
\* one per access and in the order of the list
OnePerAccess(items, accesses) ==
    /\ Len(items) = Len(accesses)
    /\ \A k \in 1..Len(items) :
          /\ items[k].class = "LazyKnownValue"
          /\ items[k].value \in 1..Len(objects)
          /\ HandleChain(objects, items[k].value) = PathAccesses(accesses[k])

IterationEnded == iter_pc.at = "returned"

\* C11: when has_iter() is false, py__iter__ yields exactly the items of the
\* base Value's iteration and no item of py__iter__list(), whatever that
\* list contains; when has_iter() is true, it yields one LazyKnownValue per
\* access of the list, in order
C11_FallbackOnlyWithoutHasIter ==
    IterationEnded =>
        /\ ~iter_handle.has_iter => yielded = base_items
        /\ iter_handle.has_iter =>
              OnePerAccess(yielded, iter_handle.py__iter__list.accesses)

====
